---- MODULE Spec2Model ----
(***************************************************************************)
(* A model of the two browser pages of the repository.                     *)
(*                                                                         *)
(*   page1.js  the post pipeline: fetchAndRenderPosts, sortAndRenderPosts, *)
(*             groupAndRenderPosts over the page-scoped object `data`.     *)
(*   page2.js  the audio control panel: the DOMContentLoaded loader and    *)
(*             the play/stop click listeners of every control entry.       *)
(*                                                                         *)
(* Spec is the post pipeline, SpecAudio the audio control panel.           *)
(*                                                                         *)
(* Strings the code compares with < and > (post titles) are sequences of   *)
(* UTF-16 code units; a JSON value is a record [isArray, items] so that a  *)
(* response body that is valid JSON but no array can be told apart.        *)
(***************************************************************************)
EXTENDS Integers, Sequences, FiniteSets, Bags, TLC

(***************************************************************************)
(* Bounds of the model.                                                    *)
(***************************************************************************)
\* the longest array of posts the remote endpoint serves
MaxPosts == 3
\* the number of handler invocations suspended at a fetch at the same time
MaxInFlight == 2
\* the longest run of consecutive sortAndRenderPosts completions counted
MaxStreak == 3
\* the number of AudioBufferSourceNodes created in one page load
MaxNodes == 3

\* the titles "A", "AB" and "B" as UTF-16 code units
TitleA == <<65>>
TitleAB == <<65, 66>>
TitleB == <<66>>
\* The <<userId, title>> pairs of the posts an endpoint serves: two userIds
\* that are array-index keys, two that are not, and a title shared by two
\* users.
PostKinds == {<<2, TitleB>>, <<1, TitleA>>, <<-1, TitleAB>>, <<-2, TitleA>>}
\* the endpoints page1.html passes to fetchAndRenderPosts
Endpoints == {"posts"}
\* the value of the parameter apiUrl when the caller passes none
Undefined == "undefined"

(***************************************************************************)
(* page1.js: values                                                        *)
(***************************************************************************)
\* a JSON array of posts
Array(items) == [isArray |-> TRUE, items |-> items]
\* the literal [] of lines 3 and 71
EmptyArray == Array(<<>>)
\* a body that is valid JSON but no array, such as {"error": "Not Found"}
NonArray == [isArray |-> FALSE, items |-> <<>>]

\* the arrays of n posts a remote endpoint can serve; ids are unique
PostArrays(n) ==
  { [i \in 1..n |-> [id |-> i, userId |-> f[i][1], title |-> f[i][2]]] :
      f \in [1..n -> PostKinds] }

Feeds == UNION { PostArrays(n) : n \in 0..MaxPosts }

VARIABLES
  feed,           \* the array of posts the remote endpoint serves
  posts,          \* data.posts
  sortDirection,  \* data.sortDirection: "undefined", "asc" or "desc"
  displayed,      \* the children of the element with id "posts"
  calls,          \* the handler invocations suspended at `await fetchPosts`
  last            \* the handler invocation that completed last

vars1 == <<feed, posts, sortDirection, displayed, calls, last>>

VARIABLES
  loader,     \* the DOMContentLoaded handler: its position in audioFiles
  loading,    \* the indices of audioFiles whose loadAudioFile is in flight
  panel,      \* the children of the element with id "audioControls"
  nodes,      \* the AudioBufferSourceNodes created so far
  lastEvent   \* the click event dispatched last

vars2 == <<loader, loading, panel, nodes, lastEvent>>

vars == <<vars1, vars2>>

(***************************************************************************)
(* page1.js: the private functions                                         *)
(***************************************************************************)
\* a < b on strings: code unit by code unit, a proper prefix is smaller
RECURSIVE StrLess(_, _)
StrLess(a, b) ==
  IF b = <<>> THEN FALSE
  ELSE IF a = <<>> THEN TRUE
  ELSE IF Head(a) # Head(b) THEN Head(a) < Head(b)
  ELSE StrLess(Tail(a), Tail(b))

\* a comparison function that compares a.title.length and b.title.length
compareFn_byLength(a, b) ==
  IF Len(a.title) < Len(b.title) THEN 1
  ELSE IF Len(b.title) < Len(a.title) THEN -1
  ELSE 0

\* the comparison function handed to posts.sort
compareFn(a, b) ==
  IF StrLess(a.title, b.title) THEN 1
  ELSE IF StrLess(b.title, a.title) THEN -1
  ELSE 0

\* x is placed before the first element that compareFn orders after it
RECURSIVE InsertSorted(_, _)
InsertSorted(s, x) ==
  IF s = <<>> THEN <<x>>
  ELSE IF compareFn(Head(s), x) > 0 THEN <<x>> \o s
  ELSE <<Head(s)>> \o InsertSorted(Tail(s), x)

\* Array.prototype.sort with compareFn: a stable sort (ECMAScript 2019)
RECURSIVE ArraySort(_)
ArraySort(s) ==
  IF s = <<>> THEN <<>>
  ELSE InsertSorted(ArraySort(SubSeq(s, 1, Len(s) - 1)), s[Len(s)])

\* a reverse whose loop stops one element short
Reverse_dropsLast(s) == [i \in 1..(Len(s) - 1) |-> s[Len(s) - i]]

\* Array.prototype.reverse
Reverse(s) == [i \in 1..Len(s) |-> s[Len(s) + 1 - i]]

sortPosts(ps, dir) ==
  LET sorted == ArraySort(ps)
  IN  IF dir = "desc" THEN Reverse(sorted) ELSE sorted

\* The accumulator of groupByUser is an object; it is modelled as the
\* sequence of its properties [key, items] in the order of their creation.
\* the callback with `let key = item.id;` at line 106
reducer_keyById(acc, item) ==
  Append(acc, [key |-> item.id, items |-> <<item>>])

\* the callback with acc[key].unshift(item) at line 111
reducer_unshift(acc, item) ==
  IF \E i \in DOMAIN acc : acc[i].key = item.userId
  THEN [i \in DOMAIN acc |->
          IF acc[i].key = item.userId
          THEN [acc[i] EXCEPT !.items = <<item>> \o @]
          ELSE acc[i]]
  ELSE Append(acc, [key |-> item.userId, items |-> <<item>>])

\* the callback handed to posts.reduce
reducer(acc, item) ==
  IF \E i \in DOMAIN acc : acc[i].key = item.userId
  THEN [i \in DOMAIN acc |->
          IF acc[i].key = item.userId
          THEN [acc[i] EXCEPT !.items = Append(@, item)]
          ELSE acc[i]]
  ELSE Append(acc, [key |-> item.userId, items |-> <<item>>])

\* Array.prototype.reduce with reducer
RECURSIVE ArrayReduce(_, _)
ArrayReduce(s, acc) ==
  IF s = <<>> THEN acc ELSE ArrayReduce(Tail(s), reducer(acc, Head(s)))

\* a property key that is an array index: the canonical form of an integer
\* from 0 up; the userIds of the model are far below the upper limit 2^32 - 2
IsArrayIndex(k) == k >= 0

\* the properties with keys in S, by ascending key
RECURSIVE AscendingKeys(_, _)
AscendingKeys(obj, S) ==
  IF S = {} THEN <<>>
  ELSE LET m == CHOOSE i \in S : \A j \in S : obj[i].key <= obj[j].key
       IN  <<obj[m].items>> \o AscendingKeys(obj, S \ {m})

\* Object.values if every key were enumerated in the order of its creation
ObjectValues_creationOrder(obj) == [i \in 1..Len(obj) |-> obj[i].items]

\* Object.values: array-index keys first, by ascending value, then the
\* other keys in the order of their creation
ObjectValues(obj) ==
  LET other == SelectSeq(obj, LAMBDA e : ~IsArrayIndex(e.key))
  IN  AscendingKeys(obj, {i \in DOMAIN obj : IsArrayIndex(obj[i].key)})
        \o [i \in 1..Len(other) |-> other[i].items]

\* Array.prototype.flat
RECURSIVE Flat(_)
Flat(ss) == IF ss = <<>> THEN <<>> ELSE Head(ss) \o Flat(Tail(ss))

groupByUser(ps) == Flat(ObjectValues(ArrayReduce(ps, <<>>)))

\* render empties the root element and then calls posts.forEach, which is
\* no function when posts is no array: the element is left empty and the
\* TypeError propagates
render(ps) ==
  IF ps.isArray
  THEN [shown |-> ps.items, threw |-> FALSE]
  ELSE [shown |-> <<>>, threw |-> TRUE]

\* data.posts.length === 0; the length of a non-array object is undefined
lengthIsZero(v) == v.isArray /\ Len(v.items) = 0

\* How a fetch settles: rejected, or resolved to a response with a success
\* (ok) or non-success status whose body is invalid JSON, a JSON object or
\* the JSON array the endpoint serves.
FetchOutcomes ==
  {[settled |-> "rejected", ok |-> FALSE, body |-> "none"]}
    \cup {[settled |-> "response", ok |-> o, body |-> b] :
            o \in BOOLEAN, b \in {"invalid", "object", "array"}}

\* no fetch was issued
NoFetch == [settled |-> "none", ok |-> FALSE, body |-> "none"]

\* fetchPosts with a catch block that logs and returns nothing
fetchPosts_noDefault(o) ==
  IF o.settled = "rejected" \/ o.body = "invalid" THEN NonArray
  ELSE IF o.body = "object" THEN NonArray
  ELSE Array(feed)

\* the value fetchPosts resolves to when its fetch settles as o: both awaits
\* are inside the try block and the status of the response is never read
fetchPosts(o) ==
  IF o.settled = "rejected" \/ o.body = "invalid" THEN EmptyArray
  ELSE IF o.body = "object" THEN NonArray
  ELSE Array(feed)

(***************************************************************************)
(* page1.js: the three public functions.  An async function runs until its *)
(* first await; what follows `await fetchPosts(...)` runs as one step when *)
(* the fetch has settled.  The two awaits inside fetchPosts touch no       *)
(* shared state, so the settling of the fetch and of response.json() is    *)
(* one choice of a fetch outcome.                                          *)
(***************************************************************************)
\* `last` records the handler invocation that completed last: the function,
\* whether it ended in a thrown error, how its fetch settled, the array
\* handed to sortPosts or groupByUser, data.sortDirection when it resumed,
\* and the number of sortAndRenderPosts completions in a row it ends.
\* no handler has completed yet
NoCall ==
  [op |-> "none", threw |-> FALSE, fetched |-> NoFetch, input |-> <<>>,
   dirBefore |-> "undefined", streak |-> 0]

\* a handler invocation suspended at its await
Call(op, url) == SetToBag({[op |-> op, url |-> url]})

\* lines 15-16 followed by `data.sortDirection = undefined;`
FetchTail_resetsFlag(result, o) ==
  LET r == render(result)
  IN  /\ posts' = result
      /\ displayed' = r.shown
      /\ sortDirection' = "undefined"
      /\ last' = [op |-> "fetchAndRenderPosts", threw |-> r.threw,
                  fetched |-> o, input |-> <<>>, dirBefore |-> sortDirection,
                  streak |-> 0]
      /\ UNCHANGED feed

\* lines 15-16 once fetchPosts has resolved to result
FetchTail(result, o) ==
  LET r == render(result)
  IN  /\ posts' = result
      /\ displayed' = r.shown
      /\ last' = [op |-> "fetchAndRenderPosts", threw |-> r.threw,
                  fetched |-> o, input |-> <<>>, dirBefore |-> sortDirection,
                  streak |-> 0]
      /\ UNCHANGED <<feed, sortDirection>>

\* line 27 with the test `=== "desc" ? "asc" : "desc"`
toggle_descFirst(dir) == IF dir = "desc" THEN "asc" ELSE "desc"

\* line 27
toggle(dir) == IF dir = "asc" THEN "desc" ELSE "asc"

\* lines 27-29 with data.posts = cur; posts.sort is no function when cur is
\* no array, and the TypeError leaves the handler after line 27
SortTail(cur, o) ==
  LET dir    == toggle(sortDirection)
      sorted == Array(sortPosts(cur.items, dir))
  IN  /\ sortDirection' = dir
      /\ posts' = IF cur.isArray THEN sorted ELSE cur
      /\ displayed' = IF cur.isArray THEN render(sorted).shown ELSE displayed
      /\ last' = [op |-> "sortAndRenderPosts", threw |-> ~cur.isArray,
                  fetched |-> o, input |-> cur.items,
                  dirBefore |-> sortDirection,
                  streak |-> IF last.streak < MaxStreak
                             THEN last.streak + 1 ELSE MaxStreak]
      /\ UNCHANGED feed

\* lines 40-41 with data.posts = cur; posts.reduce is no function when cur
\* is no array
GroupTail(cur, o) ==
  LET grouped == Array(groupByUser(cur.items))
  IN  /\ posts' = IF cur.isArray THEN grouped ELSE cur
      /\ displayed' = IF cur.isArray THEN render(grouped).shown ELSE displayed
      /\ last' = [op |-> "groupAndRenderPosts", threw |-> ~cur.isArray,
                  fetched |-> o, input |-> cur.items,
                  dirBefore |-> sortDirection, streak |-> 0]
      /\ UNCHANGED <<feed, sortDirection>>

\* fetchAndRenderPosts(apiUrl) up to its await
fetchAndRenderPosts(apiUrl) ==
  /\ BagCardinality(calls) < MaxInFlight
  /\ calls' = calls (+) Call("fetchAndRenderPosts", apiUrl)
  /\ UNCHANGED <<feed, posts, sortDirection, displayed, last, vars2>>

\* sortAndRenderPosts() up to its await, or to its end when it has none
sortAndRenderPosts ==
  IF lengthIsZero(posts)
  THEN /\ BagCardinality(calls) < MaxInFlight
       /\ calls' = calls (+) Call("sortAndRenderPosts", Undefined)
       /\ UNCHANGED <<feed, posts, sortDirection, displayed, last, vars2>>
  ELSE /\ SortTail(posts, NoFetch)
       /\ UNCHANGED <<calls, vars2>>

\* groupAndRenderPosts() up to its await, or to its end when it has none
groupAndRenderPosts ==
  IF lengthIsZero(posts)
  THEN /\ BagCardinality(calls) < MaxInFlight
       /\ calls' = calls (+) Call("groupAndRenderPosts", Undefined)
       /\ UNCHANGED <<feed, posts, sortDirection, displayed, last, vars2>>
  ELSE /\ GroupTail(posts, NoFetch)
       /\ UNCHANGED <<calls, vars2>>

\* the fetch of a suspended fetchAndRenderPosts settles as o
fetchAndRenderPostsResume(c, o) ==
  /\ c.op = "fetchAndRenderPosts"
  /\ BagIn(c, calls)
  /\ calls' = calls (-) SetToBag({c})
  /\ FetchTail(fetchPosts(o), o)
  /\ UNCHANGED vars2

\* the fetch of a suspended sortAndRenderPosts settles as o
sortAndRenderPostsResume(c, o) ==
  /\ c.op = "sortAndRenderPosts"
  /\ BagIn(c, calls)
  /\ calls' = calls (-) SetToBag({c})
  /\ SortTail(fetchPosts(o), o)
  /\ UNCHANGED vars2

\* the fetch of a suspended groupAndRenderPosts settles as o
groupAndRenderPostsResume(c, o) ==
  /\ c.op = "groupAndRenderPosts"
  /\ BagIn(c, calls)
  /\ calls' = calls (-) SetToBag({c})
  /\ GroupTail(fetchPosts(o), o)
  /\ UNCHANGED vars2

\* the handler invocations that can be suspended
Calls ==
  {[op |-> "fetchAndRenderPosts", url |-> u] : u \in Endpoints}
    \cup {[op |-> op, url |-> Undefined] :
            op \in {"sortAndRenderPosts", "groupAndRenderPosts"}}

(***************************************************************************)
(* page2.js                                                                *)
(***************************************************************************)
\* the last path segment of the three URLs of audioFiles
audioFiles == <<"BackgroundMusica2.ogg", "Hangout.ogg", "Lotus.ogg">>

\* An AudioBuffer is modelled as the index in audioFiles of the file it was
\* decoded from, a source node as its index in `nodes`.
\* the null loadAudioFile returns from its catch block
Null == 0
\* the value of `let sourceNode;` before the first assignment
NoNode == 0

\* loadAudioFile with a catch block that returns a buffer all the same
loadAudioFile_neverNull(i, ok) == i

\* The value loadAudioFile(audioContext, audioFiles[i]) returns when the
\* await reached last settles as ok: the decoded buffer after the third
\* await, null from the catch block after a failure.
loadAudioFile(i, ok) == IF ok THEN i ELSE Null

\* createControlButtons: a new button is enabled, line 82 disables Stop
createControlButtons == [playDisabled |-> FALSE, stopDisabled |-> TRUE]

\* createAudioControls: the container of one control entry with the state
\* its two listeners close over
createAudioControls(audioFileURL, audioBuffer) ==
  LET b == createControlButtons
  IN  [url |-> audioFileURL, buffer |-> audioBuffer,
       playDisabled |-> b.playDisabled, stopDisabled |-> b.stopDisabled,
       sourceNode |-> NoNode]

\* playAudio that starts the node of the entry again when it has one
playAudio_reusesNode(ns, entry) ==
  IF entry.sourceNode # NoNode
  THEN [nodes |-> [ns EXCEPT ![entry.sourceNode].starts = @ + 1],
        entry |-> [entry EXCEPT !.playDisabled = TRUE,
                                !.stopDisabled = FALSE],
        returned |-> entry.sourceNode]
  ELSE LET created == Append(ns, [buffer |-> entry.buffer, starts |-> 1,
                                  stops |-> 0])
       IN  [nodes |-> created,
            entry |-> [entry EXCEPT !.playDisabled = TRUE,
                                    !.stopDisabled = FALSE],
            returned |-> Len(created)]

\* playAudio: a new source node on the buffer is created and started, then
\* Play is disabled and Stop enabled; the new node is returned
playAudio(ns, entry) ==
  LET created == Append(ns, [buffer |-> entry.buffer, starts |-> 0,
                             stops |-> 0])
      n       == Len(created)
  IN  [nodes |-> [created EXCEPT ![n].starts = @ + 1],
       entry |-> [entry EXCEPT !.playDisabled = TRUE,
                               !.stopDisabled = FALSE],
       returned |-> n]

\* stopAudio without line 134
stopAudio_playStaysDisabled(ns, entry) ==
  [nodes |-> IF entry.sourceNode # NoNode
             THEN [ns EXCEPT ![entry.sourceNode].stops = @ + 1]
             ELSE ns,
   entry |-> [entry EXCEPT !.stopDisabled = TRUE],
   returned |-> Null]

\* stopAudio: the node is stopped if there is one, then Play is enabled and
\* Stop disabled; null is returned
stopAudio(ns, entry) ==
  [nodes |-> IF entry.sourceNode # NoNode
             THEN [ns EXCEPT ![entry.sourceNode].stops = @ + 1]
             ELSE ns,
   entry |-> [entry EXCEPT !.playDisabled = FALSE, !.stopDisabled = TRUE],
   returned |-> Null]

\* the click listener of the play button without the test of line 47
playListener_unguarded(ns, entry) ==
  LET r == playAudio(ns, entry)
  IN  [nodes |-> r.nodes,
       entry |-> [r.entry EXCEPT !.sourceNode = r.returned]]

\* the click listener of the play button of entry e: the value playAudio
\* returns is assigned to sourceNode
playListener(ns, entry) ==
  IF ~entry.playDisabled
  THEN LET r == playAudio(ns, entry)
       IN  [nodes |-> r.nodes,
            entry |-> [r.entry EXCEPT !.sourceNode = r.returned]]
  ELSE [nodes |-> ns, entry |-> entry]

\* the click listener of the stop button of entry e: the value stopAudio
\* returns is dropped
stopListener(ns, entry) ==
  IF ~entry.stopDisabled
  THEN LET r == stopAudio(ns, entry)
       IN  [nodes |-> r.nodes, entry |-> r.entry]
  ELSE [nodes |-> ns, entry |-> entry]

\* the play click with `let sourceNode` declared once for the whole page
playClick_sharedSourceNode(e) ==
  /\ e \in DOMAIN panel
  /\ LET r == playListener(nodes, panel[e])
     IN  /\ Len(r.nodes) <= MaxNodes
         /\ nodes' = r.nodes
         /\ panel' = [f \in DOMAIN panel |->
                        IF f = e THEN r.entry
                        ELSE [panel[f] EXCEPT !.sourceNode = r.entry.sourceNode]]
  /\ lastEvent' = [entry |-> e, button |-> "play",
                   disabled |-> panel[e].playDisabled,
                   tick |-> 1 - lastEvent.tick]
  /\ UNCHANGED <<loader, loading, vars1>>

\* a click event on the play button of the e-th control entry
playClick(e) ==
  /\ e \in DOMAIN panel
  /\ LET r == playListener(nodes, panel[e])
     IN  /\ Len(r.nodes) <= MaxNodes
         /\ nodes' = r.nodes
         /\ panel' = [panel EXCEPT ![e] = r.entry]
  /\ lastEvent' = [entry |-> e, button |-> "play",
                   disabled |-> panel[e].playDisabled,
                   tick |-> 1 - lastEvent.tick]
  /\ UNCHANGED <<loader, loading, vars1>>

\* a click event on the stop button of the e-th control entry
stopClick(e) ==
  /\ e \in DOMAIN panel
  /\ LET r == stopListener(nodes, panel[e])
     IN  /\ nodes' = r.nodes
         /\ panel' = [panel EXCEPT ![e] = r.entry]
  /\ lastEvent' = [entry |-> e, button |-> "stop",
                   disabled |-> panel[e].stopDisabled,
                   tick |-> 1 - lastEvent.tick]
  /\ UNCHANGED <<loader, loading, vars1>>

\* every loadAudioFile call is started before the first is awaited
StartLoad_allAtOnce(i) ==
  /\ loader' = [loader EXCEPT !.pc = "fetch", !.i = i]
  /\ loading' = loading \cup DOMAIN audioFiles

\* the first await of the loadAudioFile call for audioFiles[i] is reached
StartLoad(i) ==
  /\ loader' = [loader EXCEPT !.pc = "fetch", !.i = i]
  /\ loading' = loading \cup {i}

\* lines 157-164 with the value loadAudioFile returned for audioFiles[i],
\* and the next iteration of the loop up to its await
AfterLoad(i, audioBuffer, ok) ==
  /\ panel' = IF audioBuffer # Null
              THEN Append(panel, createAudioControls(audioFiles[i], audioBuffer))
              ELSE panel
  /\ IF i < Len(audioFiles)
     THEN /\ loader' = [loader EXCEPT !.pc = "fetch", !.i = i + 1,
                                      !.results = Append(@, ok)]
          /\ loading' = (loading \ {i}) \cup {i + 1}
     ELSE /\ loader' = [loader EXCEPT !.pc = "done", !.i = i + 1,
                                      !.results = Append(@, ok)]
          /\ loading' = loading \ {i}

\* the DOMContentLoaded event: the handler runs up to its first await
DOMContentLoaded ==
  /\ loader.pc = "start"
  /\ StartLoad(1)
  /\ UNCHANGED <<panel, nodes, lastEvent, vars1>>

\* `await fetch(audioFileURL)` settles
fetchSettles(ok) ==
  /\ loader.pc = "fetch"
  /\ IF ok
     THEN /\ loader' = [loader EXCEPT !.pc = "arrayBuffer"]
          /\ UNCHANGED <<loading, panel>>
     ELSE AfterLoad(loader.i, loadAudioFile(loader.i, FALSE), FALSE)
  /\ UNCHANGED <<nodes, lastEvent, vars1>>

\* `await response.arrayBuffer()` settles
arrayBufferSettles(ok) ==
  /\ loader.pc = "arrayBuffer"
  /\ IF ok
     THEN /\ loader' = [loader EXCEPT !.pc = "decode"]
          /\ UNCHANGED <<loading, panel>>
     ELSE AfterLoad(loader.i, loadAudioFile(loader.i, FALSE), FALSE)
  /\ UNCHANGED <<nodes, lastEvent, vars1>>

\* `await audioContext.decodeAudioData(arrayBuffer)` settles
decodeSettles(ok) ==
  /\ loader.pc = "decode"
  /\ AfterLoad(loader.i, loadAudioFile(loader.i, ok), ok)
  /\ UNCHANGED <<nodes, lastEvent, vars1>>

\* page2.js has run: the listener for DOMContentLoaded is registered and the
\* page has no control entry; loader.results records, for every file whose
\* load has completed, whether its fetch and decode succeeded
InitAudio ==
  /\ loader = [pc |-> "start", i |-> 1, results |-> <<>>]
  /\ loading = {}
  /\ panel = <<>>
  /\ nodes = <<>>
  /\ lastEvent = [entry |-> 0, button |-> "none", disabled |-> FALSE,
                  tick |-> 0]

(***************************************************************************)
(* The post pipeline                                                       *)
(***************************************************************************)
\* lines 2-5 of page1.js, with an endpoint that serves any array of posts
Init ==
  /\ feed \in Feeds
  /\ posts = EmptyArray
  /\ sortDirection = "undefined"
  /\ displayed = <<>>
  /\ calls = EmptyBag
  /\ last = NoCall
  /\ InitAudio

Next ==
  \/ \E u \in Endpoints : fetchAndRenderPosts(u)
  \/ sortAndRenderPosts
  \/ groupAndRenderPosts
  \/ \E c \in Calls, o \in FetchOutcomes : fetchAndRenderPostsResume(c, o)
  \/ \E c \in Calls, o \in FetchOutcomes : sortAndRenderPostsResume(c, o)
  \/ \E c \in Calls, o \in FetchOutcomes : groupAndRenderPostsResume(c, o)

Spec == Init /\ [][Next]_vars

(***************************************************************************)
(* The audio control panel                                                 *)
(***************************************************************************)
InitPanel ==
  /\ feed = <<>>
  /\ posts = EmptyArray
  /\ sortDirection = "undefined"
  /\ displayed = <<>>
  /\ calls = EmptyBag
  /\ last = NoCall
  /\ InitAudio

NextPanel ==
  \/ DOMContentLoaded
  \/ \E ok \in BOOLEAN : fetchSettles(ok)
  \/ \E ok \in BOOLEAN : arrayBufferSettles(ok)
  \/ \E ok \in BOOLEAN : decodeSettles(ok)
  \/ \E e \in 1..Len(audioFiles) : playClick(e)
  \/ \E e \in 1..Len(audioFiles) : stopClick(e)

SpecAudio == InitPanel /\ [][NextPanel]_vars

(***************************************************************************)
(* Properties of the post pipeline (Spec)                                  *)
(***************************************************************************)
UserIdsOf(s) == [i \in DOMAIN s |-> s[i].userId]
TitlesOf(s) == [i \in DOMAIN s |-> s[i].title]

\* the position at which userId u is first encountered in s
FirstSeen(s, u) ==
  CHOOSE i \in DOMAIN s :
    s[i].userId = u /\ \A j \in 1..(i - 1) : s[j].userId # u

\* the last handler to complete was f and it returned normally
Completed(f) == last.op = f /\ ~last.threw

NonDecreasingTitles(s) ==
  \A i, j \in DOMAIN s : i < j => ~StrLess(s[j].title, s[i].title)
NonIncreasingTitles(s) ==
  \A i, j \in DOMAIN s : i < j => ~StrLess(s[i].title, s[j].title)
NoDuplicateTitles(s) ==
  \A i, j \in DOMAIN s : i # j => s[i].title # s[j].title

\* C1 as claimed: after groupAndRender the groups are ordered by the first
\* occurrence of their userId in the sequence that was grouped.
C1_FirstSeenOrder ==
  Completed("groupAndRenderPosts") =>
    \A i, j \in DOMAIN posts.items :
      i < j => FirstSeen(last.input, posts.items[i].userId)
                 <= FirstSeen(last.input, posts.items[j].userId)

\* C1 as amended: after groupAndRender the groups whose userId is a
\* non-negative integer come first, by ascending userId whatever their first
\* occurrence; the groups of the other userIds follow, ordered by the first
\* occurrence of their userId.
C1_IndexKeysAscendThenFirstSeen ==
  Completed("groupAndRenderPosts") =>
    \A i, j \in DOMAIN posts.items :
      LET a == posts.items[i].userId
          b == posts.items[j].userId
      IN  i < j =>
            /\ (a >= 0 /\ b >= 0) => a <= b
            /\ a < 0 => /\ b < 0
                        /\ FirstSeen(last.input, a) <= FirstSeen(last.input, b)

\* C1 witness: userIds [2, 1, 2] were grouped and came out as [1, 2, 2].
C1_Witness ==
  /\ Completed("groupAndRenderPosts")
  /\ UserIdsOf(last.input) = <<2, 1, 2>>
  /\ UserIdsOf(posts.items) = <<1, 2, 2>>

\* C2 as claimed: when sortAndRender has completed, the collection is in
\* non-decreasing title order if the flag is "asc" and in non-increasing
\* title order if it is "desc".
C2_OrderedAsFlagNames ==
  Completed("sortAndRenderPosts") =>
    /\ sortDirection = "asc" => NonDecreasingTitles(posts.items)
    /\ sortDirection = "desc" => NonIncreasingTitles(posts.items)

\* C3 as claimed: a sortAndRender that found the flag unset or "asc" leaves
\* it "desc", and one that found it "desc" leaves it "asc".
C3_UnsetBecomesDesc ==
  last.op = "sortAndRenderPosts" =>
    sortDirection = IF last.dirBefore = "desc" THEN "asc" ELSE "desc"

\* C3 as amended: a sortAndRender that found the flag unset or "desc" leaves
\* it "asc", and one that found it "asc" leaves it "desc"; the first
\* sortAndRender after page load leaves the flag "asc".
C3_UnsetBecomesAsc ==
  last.op = "sortAndRenderPosts" =>
    sortDirection = IF last.dirBefore = "asc" THEN "desc" ELSE "asc"

\* C3 witness: a sortAndRender found the flag unset and has completed.
C3_Witness ==
  /\ last.op = "sortAndRenderPosts"
  /\ last.dirBefore = "undefined"
  /\ sortDirection = "asc"

\* A step that completes the second of two consecutive sortAndRender calls,
\* neither with a fetch, the first on a non-empty collection without
\* duplicate titles: `last` holds the collection and the flag from before
\* the first of the two.
SecondSortStep ==
  /\ Completed("sortAndRenderPosts")
  /\ last.fetched = NoFetch
  /\ last.input # <<>>
  /\ NoDuplicateTitles(last.input)
  /\ last' # last
  /\ last'.op = "sortAndRenderPosts"
  /\ last'.fetched = NoFetch

\* C4 as claimed: two consecutive sortAndRender calls from any state with a
\* non-empty collection without duplicate titles restore the flag and the
\* order of the collection.
C4_RoundTrip ==
  [][SecondSortStep =>
       posts' = Array(last.input) /\ sortDirection' = last.dirBefore]_vars

\* C4 as amended: two consecutive sortAndRender calls from a state that a
\* completed sortAndRender has left, with a non-empty collection without
\* duplicate titles, restore the flag and the order of the collection.
C4_RoundTripAfterSort ==
  [][(SecondSortStep /\ last.streak >= 2) =>
       posts' = Array(last.input) /\ sortDirection' = last.dirBefore]_vars

\* C4 witness: three sortAndRender calls in a row have completed on two or
\* more posts without duplicate titles, so the last two started from a
\* state that the first had left.
C4_Witness ==
  /\ Completed("sortAndRenderPosts")
  /\ last.fetched = NoFetch
  /\ last.streak >= 3
  /\ Len(last.input) >= 2
  /\ NoDuplicateTitles(last.input)

\* C5: when the fetch of a fetchAndRender was rejected or its body was no
\* valid JSON, the call returns normally, the collection is the empty
\* sequence and nothing is displayed.
C5_FailedFetchRendersEmpty ==
  ( /\ last.op = "fetchAndRenderPosts"
    /\ last.fetched.settled = "rejected" \/ last.fetched.body = "invalid" )
  => /\ ~last.threw
     /\ posts = EmptyArray
     /\ displayed = <<>>

\* C5 witness: a fetchAndRender whose response body was no valid JSON has
\* completed while the endpoint serves posts.
C5_Witness ==
  /\ last.op = "fetchAndRenderPosts"
  /\ last.fetched.body = "invalid"
  /\ feed # <<>>
  /\ displayed = <<>>

\* C6 as claimed: no handler ends in a thrown error, and when the fetch of
\* the handler that completed last resolved with a non-success status the
\* collection is the empty sequence.
C6_NonSuccessStatusIsFailure ==
  /\ ~last.threw
  /\ (last.fetched.settled = "response" /\ ~last.fetched.ok)
       => posts = EmptyArray

\* C10: after groupAndRender, between two records with the same userId
\* there is no record with another userId.
C10_GroupsContiguous ==
  Completed("groupAndRenderPosts") =>
    \A i, j, k \in DOMAIN posts.items :
      (i < k /\ k < j /\ posts.items[i].userId = posts.items[j].userId)
        => posts.items[k].userId = posts.items[i].userId

\* C10 witness: a sequence in which a record of user 1 lay between two
\* records of user 2 has been grouped.
C10_Witness ==
  /\ Completed("groupAndRenderPosts")
  /\ UserIdsOf(last.input) = <<2, 1, 2>>
  /\ Len(posts.items) = 3

\* the number of times each record occurs in s
BagOf(s) ==
  [x \in {s[i] : i \in DOMAIN s} |-> Cardinality({i \in DOMAIN s : s[i] = x})]

\* the position of the record with the given id in s
PositionOf(s, id) == CHOOSE i \in DOMAIN s : s[i].id = id

\* C11: after a sortAndRender on a non-empty collection, every record occurs
\* in the collection as often as in the collection that was sorted, whatever
\* the direction and with duplicate titles allowed.
C11_SortKeepsRecords ==
  (Completed("sortAndRenderPosts") /\ last.input # <<>>) =>
    /\ Len(posts.items) = Len(last.input)
    /\ BagOf(posts.items) = BagOf(last.input)

\* C11 witness: a sortAndRender to direction "desc" has reordered three
\* posts of which two have the same title.
C11_Witness ==
  /\ Completed("sortAndRenderPosts")
  /\ last.fetched = NoFetch
  /\ sortDirection = "desc"
  /\ Len(last.input) = 3
  /\ ~NoDuplicateTitles(last.input)
  /\ posts.items # last.input

\* C12: after groupAndRender, two records with the same userId are in the
\* order in which they were in the sequence that was grouped.
C12_GroupIsStable ==
  Completed("groupAndRenderPosts") =>
    \A i, j \in DOMAIN posts.items :
      (i < j /\ posts.items[i].userId = posts.items[j].userId)
        => PositionOf(last.input, posts.items[i].id)
             < PositionOf(last.input, posts.items[j].id)

\* C12 witness: two records of user 2 with a record of user 1 between them
\* have been grouped, and the collection has changed.
C12_Witness ==
  /\ Completed("groupAndRenderPosts")
  /\ UserIdsOf(last.input) = <<2, 1, 2>>
  /\ posts.items # last.input
  /\ Len(posts.items) = 3

\* the two functions with an implicit fetch
Implicit == {"sortAndRenderPosts", "groupAndRenderPosts"}

\* the step suspends a new invocation c at its fetch
Issues(c) == CopiesIn(c, calls') > CopiesIn(c, calls)

\* the step resumes the suspended invocation c
Resumes(c) == CopiesIn(c, calls') < CopiesIn(c, calls)

\* the endpoints supplied to the fetchAndRender calls that are suspended
Supplied ==
  {c.url : c \in {d \in BagToSet(calls) : d.op = "fetchAndRenderPosts"}}

\* C13, its first half: sortAndRender and groupAndRender issue a fetch when
\* the collection is empty at invocation and none when it is not.
C13_FetchExactlyWhenEmpty ==
  [][ /\ \A c \in BagToSet(calls') :
           (c.op \in Implicit /\ Issues(c)) => lengthIsZero(posts)
      /\ (last' # last /\ last'.op \in Implicit /\ last'.fetched = NoFetch)
           => ~lengthIsZero(posts)
    ]_vars

\* C13 as claimed: sortAndRender and groupAndRender issue a fetch exactly
\* when the collection is empty at invocation, and that fetch targets an
\* endpoint supplied to fetchAndRender before.
C13_ImplicitFetchToSuppliedEndpoint ==
  [][ /\ \A c \in BagToSet(calls') :
           (c.op \in Implicit /\ Issues(c)) =>
             /\ lengthIsZero(posts)
             /\ Supplied # {} => c.url \in Supplied
      /\ (last' # last /\ last'.op \in Implicit /\ last'.fetched = NoFetch)
           => ~lengthIsZero(posts)
    ]_vars

\* C18 as claimed: when a suspended sortAndRender or groupAndRender resumes
\* and the collection is a non-empty array that another handler has stored
\* meanwhile, the collection keeps its records: the result of the implicit
\* fetch does not replace them.
C18_NoOverwriteOnResume ==
  [][\A c \in BagToSet(calls) :
       (c.op \in Implicit /\ Resumes(c) /\ posts.isArray /\ posts.items # <<>>)
         => /\ posts'.isArray
            /\ BagOf(posts'.items) = BagOf(posts.items)]_vars

\* C19: a step that changes the sort-direction flag completes a
\* sortAndRender; no step of fetchAndRender or groupAndRender changes it.
C19_OnlySortWritesFlag ==
  [][ /\ sortDirection' # sortDirection
           => (last' # last /\ last'.op = "sortAndRenderPosts")
      /\ (last' # last /\ last'.op \in {"fetchAndRenderPosts",
                                        "groupAndRenderPosts"})
           => sortDirection' = sortDirection
    ]_vars

\* C19 witness: after a sortAndRender has set the flag, a groupAndRender has
\* left a collection that is ordered by title in neither direction.
C19_Witness ==
  /\ Completed("groupAndRenderPosts")
  /\ sortDirection # "undefined"
  /\ ~NonDecreasingTitles(posts.items)
  /\ ~NonIncreasingTitles(posts.items)

(***************************************************************************)
(* Properties of the audio control panel (SpecAudio)                       *)
(***************************************************************************)
Stopped(entry) == ~entry.playDisabled /\ entry.stopDisabled
Playing(entry) == entry.playDisabled /\ ~entry.stopDisabled

\* the step dispatches a click on the given button of the e-th entry
Clicked(e, button) ==
  /\ lastEvent' # lastEvent
  /\ lastEvent'.entry = e
  /\ lastEvent'.button = button

URLsOf(p) == [i \in DOMAIN p |-> p[i].url]

\* the URLs of audioFiles from index i on whose load succeeded
RECURSIVE Succeeded(_, _)
Succeeded(results, i) ==
  IF i > Len(results) THEN <<>>
  ELSE (IF results[i] THEN <<audioFiles[i]>> ELSE <<>>)
         \o Succeeded(results, i + 1)

\* C7: an entry is Stopped when it is added; after every step exactly one
\* of the two buttons of every entry is enabled; a Play click on a Stopped
\* entry leaves it Playing and a Stop click on a Playing entry leaves it
\* Stopped.
C7_TwoStateMachine ==
  [][ /\ \A e \in DOMAIN panel' :
           panel'[e].playDisabled # panel'[e].stopDisabled
      /\ \A e \in (DOMAIN panel') \ (DOMAIN panel) : Stopped(panel'[e])
      /\ \A e \in DOMAIN panel :
           /\ (Clicked(e, "play") /\ Stopped(panel[e])) => Playing(panel'[e])
           /\ (Clicked(e, "stop") /\ Playing(panel[e])) => Stopped(panel'[e])
    ]_vars

\* C7 witness: an entry was played and then stopped.
C7_Witness ==
  /\ lastEvent.button = "stop"
  /\ ~lastEvent.disabled
  /\ Stopped(panel[lastEvent.entry])
  /\ panel[lastEvent.entry].sourceNode # NoNode

\* C8: a Play click on a Playing entry and a Stop click on a Stopped entry
\* create no source node and leave every entry as it was.
C8_DisabledClickNoEffect ==
  [][\A e \in DOMAIN panel :
       ( \/ Clicked(e, "play") /\ Playing(panel[e])
         \/ Clicked(e, "stop") /\ Stopped(panel[e]) )
       => panel' = panel /\ nodes' = nodes]_vars

\* C8 witness: the play button of a Playing entry was clicked; the one
\* source node of the page is the one the first click created.
C8_Witness ==
  /\ lastEvent.button = "play"
  /\ lastEvent.disabled
  /\ Playing(panel[lastEvent.entry])
  /\ Len(nodes) = 1

\* C9: when the DOMContentLoaded handler has finished, the control entries
\* are the URLs whose load succeeded, in the order of audioFiles.
C9_PanelIsSucceededInOrder ==
  loader.pc = "done" =>
    /\ Len(loader.results) = Len(audioFiles)
    /\ URLsOf(panel) = Succeeded(loader.results, 1)

\* C9 witness: the second of the three loads failed and the panel holds
\* the first and the third URL.
C9_Witness ==
  /\ loader.pc = "done"
  /\ loader.results = <<TRUE, FALSE, TRUE>>
  /\ URLsOf(panel) = <<audioFiles[1], audioFiles[3]>>


\* the source nodes on the buffer of the entry that were started and not
\* stopped
LiveNodes(ns, entry) ==
  {n \in DOMAIN ns :
     ns[n].buffer = entry.buffer /\ ns[n].starts >= 1 /\ ns[n].stops = 0}

\* C14: a click on one entry leaves the buttons, the sourceNode variable and
\* the source node of every other entry as they were.
C14_EntriesIndependent ==
  [][\A e \in DOMAIN panel :
       (lastEvent' # lastEvent /\ lastEvent'.entry = e) =>
         \A f \in (DOMAIN panel) \ {e} :
           /\ panel'[f] = panel[f]
           /\ panel[f].sourceNode # NoNode
                => nodes'[panel[f].sourceNode] = nodes[panel[f].sourceNode]
    ]_vars

\* C14 witness: two entries are Playing at the same time, each on a node of
\* its own that was started and not stopped.
C14_Witness ==
  \E e, f \in DOMAIN panel :
    /\ e # f
    /\ Playing(panel[e]) /\ Playing(panel[f])
    /\ panel[e].sourceNode # panel[f].sourceNode
    /\ panel[e].sourceNode \in LiveNodes(nodes, panel[e])
    /\ panel[f].sourceNode \in LiveNodes(nodes, panel[f])

\* C15 as claimed: the sourceNode variable of a Stopped entry holds no
\* handle; it holds one only while the entry is Playing.
C15_StoppedHasNoHandle ==
  \A e \in DOMAIN panel :
    /\ Stopped(panel[e]) => panel[e].sourceNode = NoNode
    /\ panel[e].sourceNode # NoNode => Playing(panel[e])

\* C16: start is called at most once on every source node; a Play click on
\* a Stopped entry creates exactly one node, starts it and makes it the
\* node of the entry, and touches no other node; every entry has at most
\* one node that was started and not stopped.
C16_FreshNodePerPlay ==
  [][ /\ \A n \in DOMAIN nodes' : nodes'[n].starts <= 1
      /\ \A e \in DOMAIN panel :
           (Clicked(e, "play") /\ Stopped(panel[e])) =>
             /\ Len(nodes') = Len(nodes) + 1
             /\ nodes'[Len(nodes')].starts = 1
             /\ panel'[e].sourceNode = Len(nodes')
             /\ \A n \in DOMAIN nodes : nodes'[n] = nodes[n]
      /\ \A e \in DOMAIN panel' :
           Cardinality(LiveNodes(nodes', panel'[e])) <= 1
    ]_vars

\* C16 witness: an entry was played, stopped and played again: two nodes
\* were created on its buffer and the second is the one that plays.
C16_Witness ==
  \E e \in DOMAIN panel :
    /\ Playing(panel[e])
    /\ Cardinality({n \in DOMAIN nodes : nodes[n].buffer = panel[e].buffer}) = 2
    /\ LiveNodes(nodes, panel[e]) = {panel[e].sourceNode}

\* C17: at most one loadAudioFile call is in flight; while the call for the
\* i-th file is in flight, the calls for all files before it have completed
\* and the entries of those that succeeded are in the panel, whatever the
\* user has clicked meanwhile.
C17_LoadsSequential ==
  /\ Cardinality(loading) <= 1
  /\ \A i \in loading :
       /\ i = loader.i
       /\ Len(loader.results) = i - 1
       /\ URLsOf(panel) = Succeeded(loader.results, 1)

\* C17 witness: the second file is being loaded while the entry of the
\* first, already in the panel, is Playing after a click.
C17_Witness ==
  /\ loading = {2}
  /\ Len(panel) = 1
  /\ Playing(panel[1])
  /\ lastEvent.button = "play"

====
